---------------------------- MODULE Spec2Model ----------------------------
(***************************************************************************)
(* A model of the SOAP2 spot SVD demonstration: soap2_svd.py run as a      *)
(* script, with the DynamicSpectrum loader of soap2_data.py and the        *)
(* OuterProduct class of outerproduct.py.                                  *)
(*                                                                         *)
(* Numbers.  The arrays hold integers.  A quotient the code forms is kept  *)
(* as numerator(s) over one denominator, so no rounding is modelled; a     *)
(* denominator of 0 stands for what IEEE division by zero leaves in a      *)
(* NumPy array (nan, inf) after its RuntimeWarning.  Display extents are   *)
(* kept in half units (twice the value), since the code adds half a        *)
(* sample spacing.                                                         *)
(*                                                                         *)
(* The HDF5 store is read lazily: what a read returns is chosen when the   *)
(* read happens.  The loader checks no shapes, so the four arrays of a     *)
(* store need not agree: active may have a row more or less than phases    *)
(* has entries, and active and quiet may be one entry longer than lambdas. *)
(*                                                                         *)
(* Init is the script at line 47: the four-phase full spectrum of line 44, *)
(* which no later line reads, has been loaded.  The blocks under           *)
(* "if False:" never run and are not modelled.                             *)
(***************************************************************************)
EXTENDS Integers, Sequences, FiniteSets, TLC

VARIABLES
    pc,          \* position of the script
    err,         \* the exception that ended the script, "" while none
    store,       \* the h5py.File handle: "none", "open", "closed"
    opens,       \* how many times h5py.File was called
    reads,       \* what was read from the store, in order
    dynspec,     \* the DynamicSpectrum under construction / loaded
    avg,         \* line 56
    delta_image, \* lines 57 and 60
    l, u,        \* lines 58 and 272
    decomposed,  \* the matrices handed to linalg.svds
    U, s, Vt,    \* line 228
    fig,         \* which of the four outer-product figures is in hand
    zoomIdx,     \* <<i1, i2>> of line 265
    models,      \* the OuterProduct objects built so far
    rendered,    \* the images handed to imshow so far
    titles       \* titles set on the figures plot() returned

vars == <<pc, err, store, opens, reads, dynspec, avg, delta_image, l, u,
          decomposed, U, s, Vt, fig, zoomIdx, models, rendered, titles>>

---------------------------------------------------------------------------
(* Bounds of the model. *)
MaxRows == 2
MaxCols == 2
MaxVal == 1
MaxSigma == 2
MaxIndex == 5

---------------------------------------------------------------------------
(* Sequences and matrices (a matrix is a sequence of rows). *)

RECURSIVE SeqSum(_)
SeqSum(q) == IF q = <<>> THEN 0 ELSE Head(q) + SeqSum(Tail(q))

RECURSIVE SeqMin(_)
SeqMin(q) ==
    IF Len(q) = 1 THEN q[1]
    ELSE LET m == SeqMin(Tail(q)) IN IF q[1] < m THEN q[1] ELSE m

RECURSIVE SeqMax(_)
SeqMax(q) ==
    IF Len(q) = 1 THEN q[1]
    ELSE LET m == SeqMax(Tail(q)) IN IF q[1] > m THEN q[1] ELSE m

Column(M, j) == [i \in 1..Len(M) |-> M[i][j]]

\* numpy index with a possibly negative integer, as a 1-based position
PyIndex(n, i) == IF i < 0 THEN n + i + 1 ELSE i + 1

\* numpy basic slice q[i1:i2] for 0 <= i1, 0 <= i2: clipped, empty if i1 >= i2
PySlice(q, i1, i2) ==
    LET hi == IF i2 < Len(q) THEN i2 ELSE Len(q)
    IN  IF i1 >= hi THEN <<>> ELSE SubSeq(q, i1 + 1, hi)


---------------------------------------------------------------------------
(* What an HDF5 store can hold. *)

names == <<"lambdas", "quiet", "phases", "active">>

K == 3

\* store.attrs: the names of the scalar metadata attributes
StoreAttrs == <<"attr">>

LambdaGrids ==
    {[j \in 1..n |-> j] : n \in 0..MaxCols} \cup {<<1, 2, 3, 4, 5>>, <<0, 1, 3, 7>>}

PhaseGrids ==
    {[i \in 1..n |-> i - 1] : n \in 0..MaxRows} \cup {<<0, 2, 4, 6>>, <<-2, -1, 1, 4>>}

Flat(P, N) == [i \in 1..P |-> [j \in 1..N |-> 1]]

Spot(P, N, r, c) == [i \in 1..P |-> [j \in 1..N |-> IF i = r /\ j = c THEN 1 ELSE 0]]

\* the P x N arrays a store may hold: all of them over 0..MaxVal while small,
\* a flat spectrum and two single-spot spectra beyond
ActiveArrays(P, N) ==
    IF P <= MaxRows /\ N <= MaxCols
    THEN [1..P -> [1..N -> 0..MaxVal]]
    ELSE {Flat(P, N), Spot(P, N, 1, 1), Spot(P, N, 2, N)}

\* the shapes of active, by the arrays read before it
ActiveShapes(d) ==
    {sh \in {Len(d.phases) - 1, Len(d.phases), Len(d.phases) + 1}
            \X {Len(d.lambdas), Len(d.lambdas) + 1} : sh[1] >= 0}

\* the values store[name][()] may return, given what was read before it
StoreValues(name, d) ==
    CASE name = "lambdas" -> LambdaGrids
      [] name = "quiet"   -> {[j \in 1..n |-> 1] : n \in {Len(d.lambdas), Len(d.lambdas) + 1}}
      [] name = "phases"  -> PhaseGrids
      [] name = "active"  ->
            UNION {{[shape |-> sh, data |-> M] : M \in ActiveArrays(sh[1], sh[2])} :
                      sh \in ActiveShapes(d)}

NoArray == [shape |-> <<0, 0>>, data |-> <<>>]

NoFraction == [num |-> <<>>, den |-> 1]

NoNumber == [num |-> 0, den |-> 1]

---------------------------------------------------------------------------
(* DynamicSpectrum.__init__ *)

Crash(e) == pc' = "crashed" /\ err' = e

\* lines 61-63
OpenStore ==
    /\ pc = "open"
    /\ store' = "open"
    /\ opens' = opens + 1
    /\ pc' = "attrs"
    /\ UNCHANGED <<err, reads, dynspec, avg, delta_image, l, u, decomposed,
                   U, s, Vt, fig, zoomIdx, models, rendered, titles>>

\* lines 66-68
LoadAttrs ==
    /\ pc = "attrs"
    /\ dynspec' = [dynspec EXCEPT !.meta = StoreAttrs]
    /\ reads' = Append(reads, "attrs")
    /\ pc' = "arrays"
    /\ UNCHANGED <<err, store, opens, avg, delta_image, l, u, decomposed,
                   U, s, Vt, fig, zoomIdx, models, rendered, titles>>

SetArray(d, name, v) ==
    CASE name = "lambdas" -> [d EXCEPT !.lambdas = v, !.set = Append(@, name)]
      [] name = "quiet"   -> [d EXCEPT !.quiet = v, !.set = Append(@, name)]
      [] name = "phases"  -> [d EXCEPT !.phases = v, !.set = Append(@, name)]
      [] name = "active"  -> [d EXCEPT !.active = v, !.set = Append(@, name)]

\* lines 71-73, one turn of the loop: store[name] raises KeyError when the
\* store has no such dataset, and the exception leaves __init__ at once
LoadArray ==
    /\ pc = "arrays"
    /\ LET name == names[Len(dynspec.set) + 1] IN
          \/ /\ Crash("KeyError")
             /\ UNCHANGED <<reads, dynspec>>
          \/ /\ \E v \in StoreValues(name, dynspec) :
                    dynspec' = SetArray(dynspec, name, v)
             /\ reads' = Append(reads, name)
             /\ pc' = IF Len(dynspec.set) + 1 = Len(names) THEN "nphases" ELSE "arrays"
             /\ err' = err
    /\ UNCHANGED <<store, opens, avg, delta_image, l, u, decomposed,
                   U, s, Vt, fig, zoomIdx, models, rendered, titles>>

\* lines 74-75
CloseStore ==
    /\ pc = "nphases"
    /\ dynspec' = [dynspec EXCEPT !.nphases = Len(dynspec.phases)]
    /\ store' = "closed"
    /\ pc' = "residual"
    /\ UNCHANGED <<err, opens, reads, avg, delta_image, l, u, decomposed,
                   U, s, Vt, fig, zoomIdx, models, rendered, titles>>

---------------------------------------------------------------------------
(* soap2_svd.py, lines 56-60 *)

Rows(A) == A.shape[1]
Cols(A) == A.shape[2]

\* active.sum(0): the column sums
ColumnSums(A) == [j \in 1..Cols(A) |-> SeqSum(Column(A.data, j))]

\* line 56: active.sum(0) / nphases, over the denominator nphases
Average(A, nphases) == [num |-> ColumnSums(A), den |-> nphases]

\* line 57: active - avg, row by row, over avg's denominator
Subtract(A, a) ==
    [num |-> [i \in 1..Rows(A) |-> [j \in 1..Cols(A) |->
                 a.den * A.data[i][j] - a.num[j]]],
     den |-> a.den]

Entries(M) == {M[i][j] : i \in 1..Len(M), j \in 1..(IF M = <<>> THEN 0 ELSE Len(M[1]))}

RowMins(M) == [i \in 1..Len(M) |-> SeqMin(M[i])]
RowMaxs(M) == [i \in 1..Len(M) |-> SeqMax(M[i])]

\* the minimum and maximum of entries e/0: nan (0/0) if one of them is nan,
\* else -inf (-1/0) or inf (1/0)
NonFiniteMin(M) ==
    IF 0 \in Entries(M) THEN 0 ELSE IF \E e \in Entries(M) : e < 0 THEN -1 ELSE 1
NonFiniteMax(M) ==
    IF 0 \in Entries(M) THEN 0 ELSE IF \E e \in Entries(M) : e > 0 THEN 1 ELSE -1

\* the minimum of the first spectrum only
ArrayMinOfFirstRow(D) ==
    [num |-> IF D.den = 0 THEN NonFiniteMin(D.num) ELSE SeqMin(D.num[1]), den |-> D.den]

\* ndarray.min() and ndarray.max() of an array with entries
ArrayMin(D) ==
    [num |-> IF D.den = 0 THEN NonFiniteMin(D.num) ELSE SeqMin(RowMins(D.num)),
     den |-> D.den]
ArrayMax(D) ==
    [num |-> IF D.den = 0 THEN NonFiniteMax(D.num) ELSE SeqMax(RowMaxs(D.num)),
     den |-> D.den]

\* line 60: (delta_image - l)/(u - l); the common denominator of delta_image
\* cancels, u = l leaves 0/0 in every entry, and so do entries that are not
\* finite (inf - inf)
Rescale(D, lo, hi) ==
    [num |-> [i \in 1..Len(D.num) |-> [j \in 1..Len(D.num[i]) |->
                 IF D.den = 0 THEN 0 ELSE D.num[i][j] - lo.num]],
     den |-> IF D.den = 0 THEN 0 ELSE hi.num - lo.num]

\* lines 56-57
Residual ==
    /\ pc = "residual"
    /\ avg' = Average(dynspec.active, dynspec.nphases)
    /\ delta_image' = Subtract(dynspec.active, avg')
    /\ pc' = "normalize"
    /\ UNCHANGED <<err, store, opens, reads, dynspec, l, u, decomposed,
                   U, s, Vt, fig, zoomIdx, models, rendered, titles>>

\* lines 58-60: min() of an array without entries raises ValueError at line
\* 58; line 59 reads the two ends of lambdas and raises IndexError when
\* lambdas is empty
Normalize ==
    /\ pc = "normalize"
    /\ IF Entries(delta_image.num) = {}
       THEN /\ Crash("ValueError")
            /\ UNCHANGED <<delta_image, l, u>>
       ELSE /\ l' = ArrayMin(delta_image)
            /\ u' = ArrayMax(delta_image)
            /\ IF dynspec.lambdas = <<>>
               THEN /\ Crash("IndexError")
                    /\ UNCHANGED delta_image
               ELSE /\ delta_image' = Rescale(delta_image, l', u')
                    /\ pc' = "figures"
                    /\ err' = err
    /\ UNCHANGED <<store, opens, reads, dynspec, avg, decomposed,
                   U, s, Vt, fig, zoomIdx, models, rendered, titles>>

\* the rows the waterfall of lines 139-153 reads: range(0, nphases, step)
WaterfallRows(nphases) ==
    LET step == IF nphases >= 10 THEN nphases \div 10 ELSE 1
    IN  {i \in 0..(nphases - 1) : i % step = 0}

\* lines 78-168, the figures of the quiet spectrum and of the waterfall:
\* plot(lambdas, quiet) at line 82 raises ValueError when the two differ in
\* length, active[i,:] at line 149 raises IndexError past the last row
Figures ==
    /\ pc = "figures"
    /\ IF Len(dynspec.lambdas) # Len(dynspec.quiet)
       THEN Crash("ValueError")
       ELSE IF \E i \in WaterfallRows(dynspec.nphases) : i >= Rows(dynspec.active)
       THEN Crash("IndexError")
       ELSE pc' = "svds" /\ err' = err
    /\ UNCHANGED <<store, opens, reads, dynspec, avg, delta_image, l, u, decomposed,
                   U, s, Vt, fig, zoomIdx, models, rendered, titles>>

---------------------------------------------------------------------------
(* scipy.sparse.linalg.svds, line 228.  The primitive is a library routine: *)
(* the model lets it return any member of a bounded family of triplets     *)
(* whose singular values do not decrease along s.  The basis vectors are   *)
(* integer stand-ins: triplet k has its phase vector at row RowOf(k) and   *)
(* its wavelength vector at columns ColOf(k) and the one after it.         *)

Min2(a, b) == IF a < b THEN a ELSE b

SigmaTriples ==
    {t \in [1..K -> 0..MaxSigma] : \A k \in 1..(K - 1) : t[k] <= t[k + 1]}

SignChoices == {<<1, 1, 1>>, <<1, -1, 1>>}

SvdsResult(P, N, t, sg, a) ==
    LET RowOf(k) == ((k - 1 + a) % P) + 1
        ColOf(k) == ((k + a) % N) + 1
    IN  [U  |-> [i \in 1..P |-> [k \in 1..K |-> IF i = RowOf(k) THEN sg[k] ELSE 0]],
         s  |-> t,
         Vt |-> [k \in 1..K |-> [j \in 1..N |->
                    IF j = ColOf(k) THEN 2 * sg[k]
                    ELSE IF j = (ColOf(k) % N) + 1 THEN sg[k] ELSE 0]]]

SvdsResults(P, N) ==
    {SvdsResult(P, N, t, sg, a) : t \in SigmaTriples, sg \in SignChoices, a \in 0..1}

\* line 228.  svds raises ValueError unless 1 <= k < min(A.shape).  What
\* ARPACK does with an array of nan is not fixed: it may fail, or return.
Svds ==
    /\ pc = "svds"
    /\ decomposed' = Append(decomposed, delta_image)
    /\ LET P == Len(delta_image.num)
           N == Len(delta_image.num[1])
       IN  IF K >= Min2(P, N)
           THEN /\ Crash("ValueError")
                /\ UNCHANGED <<U, s, Vt, fig>>
           ELSE \/ /\ delta_image.den = 0
                   /\ Crash("ArpackError")
                   /\ UNCHANGED <<U, s, Vt, fig>>
                \/ /\ \E r \in SvdsResults(P, N) :
                          /\ U' = r.U
                          /\ s' = r.s
                          /\ Vt' = r.Vt
                   /\ fig' = 1
                   /\ pc' = "construct"
                   /\ err' = err
    /\ UNCHANGED <<store, opens, reads, dynspec, avg, delta_image, l, u,
                   zoomIdx, models, rendered, titles>>

---------------------------------------------------------------------------
(* outerproduct.py *)

\* np.outer(a, b)
NpOuter(a, b) == [i \in 1..Len(a) |-> [j \in 1..Len(b) |-> a[i] * b[j]]]

\* ndarray.transpose() of a 2-D array with entries
Transpose(M) ==
    IF M = <<>> THEN <<>>
    ELSE [j \in 1..Len(M[1]) |-> [i \in 1..Len(M) |-> M[i][j]]]

\* OuterProduct.__init__, lines 21-30
OuterProduct(xvals, uvals, yvals, vvals) ==
    [xvals |-> xvals, uvals |-> uvals, yvals |-> yvals, vvals |-> vvals,
     outer |-> NpOuter(uvals, vvals)]

\* lines 45-53 in half units: g[0] - 0.5*(g[1] - g[0])
LowEdge(g) ==
    2 * g[PyIndex(Len(g), 0)] - (g[PyIndex(Len(g), 1)] - g[PyIndex(Len(g), 0)])

\* the upper edge with the spacing of the first two samples
HighEdgeFirstSpacing(g) ==
    2 * g[PyIndex(Len(g), -1)] + (g[PyIndex(Len(g), 1)] - g[PyIndex(Len(g), 0)])

\* lines 45-53 in half units: g[-1] + 0.5*(g[-1] - g[-2])
HighEdge(g) ==
    2 * g[PyIndex(Len(g), -1)] + (g[PyIndex(Len(g), -1)] - g[PyIndex(Len(g), -2)])

\* extent=(x_l, x_u, y_l, y_u) of lines 57 and 85, in half units
Extent(m) == <<LowEdge(m.xvals), HighEdge(m.xvals), LowEdge(m.yvals), HighEdge(m.yvals)>>

\* what imshow is given at lines 56-59: the image, its extent, the axis limits
MainImage(n, m) ==
    [fig |-> n, kind |-> "main", image |-> Transpose(m.outer), extent |-> Extent(m),
     xlim |-> <<Extent(m)[1], Extent(m)[2]>>, ylim |-> <<Extent(m)[3], Extent(m)[4]>>]

\* what imshow is given at lines 83-89: the image, its extent, the axis limits
ZoomImage(n, m, zoom) ==
    [fig |-> n, kind |-> "zoom", image |-> Transpose(m.outer), extent |-> Extent(m),
     xlim |-> zoom[1], ylim |-> zoom[2]]

---------------------------------------------------------------------------
(* soap2_svd.py, lines 228-277 *)

\* Vt[i, :] and U[:, i] for a numpy index i
VtRow(i) == Vt[PyIndex(Len(Vt), i)]
UCol(i) == Column(U, PyIndex(Len(U[1]), i))

\* the triplets taken from the start, as if sorted by decreasing value
TripletIndexFromStart(n) == IF n = 1 THEN 0 ELSE IF n = 2 THEN 1 ELSE 2

\* the index of the triplet the n-th figure shows: lines 230, 234, 239, 267
TripletIndex(n) == IF n = 1 THEN -1 ELSE IF n = 2 THEN -2 ELSE -3

\* the zoom argument of the n-th plot call, in half units of the model's
\* grids: lines 231, 236, 241, 269
NoZoom == <<>>
Zoom(n) ==
    CASE n = 2 -> <<<<5, 9>>, <<-1, 1>>>>
      [] n = 3 -> <<<<3, 6>>, <<-1, 1>>>>
      [] OTHER -> NoZoom

Title(n) ==
    CASE n = 1 -> "1st singular value"
      [] n = 2 -> "2nd singular value"
      [] OTHER -> "3rd singular value"

\* lines 266-268: the sub-slice [i1:i2] of a model's x axis
Restrict(m, i1, i2) ==
    OuterProduct(PySlice(m.xvals, i1, i2), PySlice(m.uvals, i1, i2), m.yvals, m.vvals)

\* the model over the whole wavelength grid for the n-th figure
FullModel(n) ==
    OuterProduct(dynspec.lambdas, VtRow(TripletIndex(n)),
                 dynspec.phases, UCol(TripletIndex(n)))

\* lines 230, 234, 239: the models of the three triplets
Construct ==
    /\ pc = "construct"
    /\ fig \in 1..3
    /\ models' = Append(models, FullModel(fig))
    /\ pc' = "plot"
    /\ UNCHANGED <<err, store, opens, reads, dynspec, avg, delta_image, l, u,
                   decomposed, U, s, Vt, fig, zoomIdx, rendered, titles>>

\* lines 264-268: the zoomed model of the third triplet; the two indices
\* stand for 7520 and 7890 on the model's short grids
ConstructZoomed ==
    /\ pc = "construct"
    /\ fig = 4
    /\ \E i1, i2 \in 0..MaxIndex :
          /\ i1 < i2
          /\ zoomIdx' = <<i1, i2>>
          /\ models' = Append(models, Restrict(FullModel(fig), i1, i2))
    /\ pc' = "plot"
    /\ UNCHANGED <<err, store, opens, reads, dynspec, avg, delta_image, l, u,
                   decomposed, U, s, Vt, fig, rendered, titles>>

\* OuterProduct.plot, lines 32-91, and the set_title that follows its return.
\* Lines 45-53 raise IndexError on an axis with fewer than 2 samples; lines
\* 67 and 69 raise ValueError when a grid and its values differ in length,
\* after the main image was drawn.
Plot ==
    /\ pc = "plot"
    /\ LET m == models[Len(models)] IN
          IF Len(m.xvals) < 2 \/ Len(m.yvals) < 2
          THEN /\ Crash("IndexError")
               /\ UNCHANGED <<rendered, titles, fig>>
          ELSE IF Len(m.xvals) # Len(m.uvals) \/ Len(m.yvals) # Len(m.vvals)
          THEN /\ Crash("ValueError")
               /\ rendered' = Append(rendered, MainImage(fig, m))
               /\ UNCHANGED <<titles, fig>>
          ELSE /\ rendered' =
                    IF Zoom(fig) = NoZoom
                    THEN Append(rendered, MainImage(fig, m))
                    ELSE rendered \o <<MainImage(fig, m), ZoomImage(fig, m, Zoom(fig))>>
               /\ titles' = Append(titles, [fig |-> fig, title |-> Title(fig)])
               /\ fig' = fig + 1
               /\ pc' = IF fig = 4 THEN "overlay" ELSE "construct"
               /\ err' = err
    /\ UNCHANGED <<store, opens, reads, dynspec, avg, delta_image, l, u,
                   decomposed, U, s, Vt, zoomIdx, models>>

\* lines 270-277: the reference curve drawn over the last figure; line 272
\* gives l and u new values, line 275 raises ValueError when lambdas and a
\* row of active differ in length
Overlay ==
    /\ pc = "overlay"
    /\ l' = [num |-> SeqMin(VtRow(-3)), den |-> 1]
    /\ u' = [num |-> SeqMax(VtRow(-3)), den |-> 1]
    /\ IF Len(dynspec.lambdas) # Cols(dynspec.active)
       THEN Crash("ValueError")
       ELSE pc' = "done" /\ err' = err
    /\ UNCHANGED <<store, opens, reads, dynspec, avg, delta_image,
                   decomposed, U, s, Vt, fig, zoomIdx, models, rendered, titles>>

---------------------------------------------------------------------------
Init ==
    /\ pc = "open"
    /\ err = ""
    /\ store = "none"
    /\ opens = 0
    /\ reads = <<>>
    /\ dynspec = [set |-> <<>>, meta |-> <<>>, lambdas |-> <<>>, quiet |-> <<>>,
                  phases |-> <<>>, active |-> NoArray, nphases |-> 0]
    /\ avg = NoFraction
    /\ delta_image = NoFraction
    /\ l = NoNumber
    /\ u = NoNumber
    /\ decomposed = <<>>
    /\ U = <<>>
    /\ s = <<>>
    /\ Vt = <<>>
    /\ fig = 0
    /\ zoomIdx = <<>>
    /\ models = <<>>
    /\ rendered = <<>>
    /\ titles = <<>>

Next ==
    \/ OpenStore
    \/ LoadAttrs
    \/ LoadArray
    \/ CloseStore
    \/ Residual
    \/ Normalize
    \/ Figures
    \/ Svds
    \/ Construct
    \/ ConstructZoomed
    \/ Plot
    \/ Overlay

Spec == Init /\ [][Next]_vars

---------------------------------------------------------------------------
(* Where the script is. *)

\* lines 56-57 have run and line 60 has not: delta_image is the residual
ResidualComputed == pc = "normalize"

\* line 60 has run: delta_image is the rescaled residual
Normalized == pc \in {"figures", "svds"} \/ decomposed # <<>>

\* DynamicSpectrum.__init__ has been left, by return or by exception
LoadEnded == pc \notin {"open", "attrs", "arrays", "nphases"}

---------------------------------------------------------------------------
(* C1.  Residual computation: the average spectrum is the column sum       *)
(* divided by the number of rows of the active matrix, and every column of *)
(* the residual delta = active - average sums to zero.                     *)
ResidualColumnsSumToZero ==
    (ResidualComputed /\ Rows(dynspec.active) >= 1 /\ Cols(dynspec.active) >= 1) =>
        /\ avg.den = Rows(dynspec.active)
        /\ delta_image.den # 0
        /\ \A j \in 1..Cols(dynspec.active) :
              /\ avg.num[j] = SeqSum(Column(dynspec.active.data, j))
              /\ SeqSum(Column(delta_image.num, j)) = 0

(* C2.  Normalization bounds: when the maximum of the residual differs     *)
(* from its minimum, every entry of the rescaled matrix lies in [0, 1],    *)
(* some entry is exactly 0 and some entry is exactly 1.                    *)
NormalizedWithinUnitRange ==
    (Normalized /\ delta_image.den # 0) =>
        /\ delta_image.den > 0
        /\ \A e \in Entries(delta_image.num) : 0 <= e /\ e <= delta_image.den
        /\ 0 \in Entries(delta_image.num)
        /\ delta_image.den \in Entries(delta_image.num)

\* a rescaled matrix with an entry strictly between 0 and 1
NormalizedWitness ==
    /\ pc = "figures"
    /\ delta_image.den # 0
    /\ \E e \in Entries(delta_image.num) : 0 < e /\ e < delta_image.den

(* C3.  Degenerate normalization: when the residual has max = min, the     *)
(* normalization signals DegenerateRange and no matrix is handed to the    *)
(* decomposition.                                                          *)
DegenerateRangeSignalled ==
    (Normalized /\ delta_image.den = 0) =>
        (err = "DegenerateRange" /\ decomposed = <<>>)

(* C4.  Pixel-center alignment: the extent given to the renderer is        *)
(* x[0] - (x[1]-x[0])/2 and x[-1] + (x[-1]-x[-2])/2, and the same for y,   *)
(* each end with the spacing of its own two end samples; [1,2,3,4,5] gives *)
(* (0.5, 5.5) and [0,1,3,7] gives (-0.5, 9.0).  Extents are in half units. *)
ExtentUsesLocalSpacing ==
    \A k \in 1..Len(rendered) :
        LET r == rendered[k]
            x == models[r.fig].xvals
            y == models[r.fig].yvals
            nx == Len(x)
            ny == Len(y)
        IN  /\ nx >= 2 /\ ny >= 2
            /\ r.extent[1] = 2 * x[1] - (x[2] - x[1])
            /\ r.extent[2] = 2 * x[nx] + (x[nx] - x[nx - 1])
            /\ r.extent[3] = 2 * y[1] - (y[2] - y[1])
            /\ r.extent[4] = 2 * y[ny] + (y[ny] - y[ny - 1])
            /\ (x = <<1, 2, 3, 4, 5>> => r.extent[1] = 1 /\ r.extent[2] = 11)
            /\ (x = <<0, 1, 3, 7>> => r.extent[1] = -1 /\ r.extent[2] = 18)

\* an image over the grid [0,1,3,7], whose two end spacings differ
ExtentWitness ==
    \E k \in 1..Len(rendered) :
        /\ models[rendered[k].fig].xvals = <<0, 1, 3, 7>>
        /\ rendered[k].extent[2] = 18

(* C5.  Eager precondition checking: no model object exists with fewer     *)
(* than 2 samples on an axis or with a grid whose length differs from its  *)
(* function values; the constructor signals an error instead.              *)
NoModelOfBadInputs ==
    \A n \in 1..Len(models) :
        /\ Len(models[n].xvals) = Len(models[n].uvals)
        /\ Len(models[n].yvals) = Len(models[n].vvals)
        /\ Len(models[n].xvals) >= 2
        /\ Len(models[n].yvals) >= 2

(* C6.  Decomposition ordering and selection: with the triplets returned   *)
(* in increasing order of singular value, the figures titled 1st, 2nd and  *)
(* 3rd singular value show the triplets at the last, second-to-last and    *)
(* third-to-last position, the 1st has the largest singular value, and in  *)
(* every model both basis vectors come from the same triplet.              *)
RankOfTitle(t) ==
    CASE t = "1st singular value" -> 1
      [] t = "2nd singular value" -> 2
      [] t = "3rd singular value" -> 3

PairedTriplet(m, k, sliced) ==
    /\ m.vvals = Column(U, k)
    /\ m.uvals = IF sliced
                 THEN [j \in 1..Len(m.uvals) |-> Vt[k][zoomIdx[1] + j]]
                 ELSE Vt[k]

TripletsSelectedFromTheEnd ==
    /\ \A n \in 1..Len(models) :
          \E k \in 1..K : PairedTriplet(models[n], k, n = 4)
    /\ \A i \in 1..Len(titles) :
          LET k == K + 1 - RankOfTitle(titles[i].title)
          IN  /\ PairedTriplet(models[titles[i].fig], k, titles[i].fig = 4)
              /\ (RankOfTitle(titles[i].title) = 1 => \A j \in 1..K : s[j] <= s[k])

\* all four figures titled, over triplets of three different singular values
TripletsWitness ==
    /\ Len(titles) = 4
    /\ s[1] < s[2] /\ s[2] < s[3]

(* C7.  Orientation convention: the model stores matrix[i][j] =            *)
(* u_of_x[i] * v_of_y[j] with shape len(x_grid) x len(y_grid), and every   *)
(* image handed to the renderer, main or zoom, is its transpose: entry     *)
(* (r, c) is u_of_x[c] * v_of_y[r].                                        *)
ImageIsTransposedOnce ==
    /\ \A n \in 1..Len(models) :
          LET m == models[n]
          IN  /\ Len(m.outer) = Len(m.xvals)
              /\ \A i \in 1..Len(m.outer) :
                    /\ Len(m.outer[i]) = Len(m.yvals)
                    /\ \A j \in 1..Len(m.yvals) : m.outer[i][j] = m.uvals[i] * m.vvals[j]
    /\ \A k \in 1..Len(rendered) :
          LET m == models[rendered[k].fig]
              image == rendered[k].image
          IN  /\ Len(image) = Len(m.yvals)
              /\ \A r \in 1..Len(image) :
                    /\ Len(image[r]) = Len(m.xvals)
                    /\ \A c \in 1..Len(m.xvals) : image[r][c] = m.uvals[c] * m.vvals[r]

(* C8.  Zoom by restriction: a zoom request is fulfilled by a model        *)
(* restricted to a sub-slice of the data; no image of the full matrix is   *)
(* shown with axis limits other than its own extent.                       *)
ZoomNeverByAxisLimits ==
    \A k \in 1..Len(rendered) :
        LET r == rendered[k]
        IN  r.image = Transpose(FullModel(Min2(r.fig, 3)).outer) =>
                /\ r.xlim = <<r.extent[1], r.extent[2]>>
                /\ r.ylim = <<r.extent[3], r.extent[4]>>

(* C9.  Restrict/zoom idempotence: restricting a model to a contiguous     *)
(* x-index range gives the model over that sub-slice of x_grid and u_of_x  *)
(* with the y axis unchanged; restricting to the full range gives the      *)
(* model back, extents included; restricting twice to nested ranges gives  *)
(* what restricting once to the inner range gives.  The second restrict    *)
(* counts its indices from the start of the first.  Each model is the last *)
(* of models in the state its construction leaves.                         *)
ClippedLength(n, i1, i2) ==
    LET hi == Min2(i2, n) IN IF hi > i1 THEN hi - i1 ELSE 0

IsSubSlice(z, m, i1, i2) ==
    /\ Len(z.xvals) = ClippedLength(Len(m.xvals), i1, i2)
    /\ Len(z.uvals) = ClippedLength(Len(m.uvals), i1, i2)
    /\ \A j \in 1..Len(z.xvals) : z.xvals[j] = m.xvals[i1 + j]
    /\ \A j \in 1..Len(z.uvals) : z.uvals[j] = m.uvals[i1 + j]
    /\ z.yvals = m.yvals
    /\ z.vvals = m.vvals
    /\ z.outer = [j \in 1..Len(z.uvals) |-> m.outer[i1 + j]]

StoreClosedWhenLoadEnds ==
    LoadEnded => (opens = 1 /\ store = "closed")

===========================================================================
